---- MODULE Spec2Model ----
(***************************************************************************)
(* A model of core/tauri-runtime/src/menu.rs: the window-menu and          *)
(* system-tray-menu tree builders, the custom menu item and its numeric    *)
(* identifier (id_value), and the MenuUpdate / TrayHandle update protocol. *)
(*                                                                         *)
(* The identifier type I is instantiated with strings.  TLC's integers    *)
(* are 32-bit signed, so a u64 is kept as four base-2^16 limbs (most       *)
(* significant first) and a u32 as two.                                    *)
(***************************************************************************)
EXTENDS Integers, Sequences, FiniteSets, TLC

VARIABLES
  target_os,   \* the build target: decides the #[cfg(target_os = "macos")] parts
  sip,         \* the output of DefaultHasher (fixed for the whole run), per hashed value
  item,        \* the CustomMenuItem value being built: << >> or <<item>>
  itemArgs,    \* history: the arguments of the CustomMenuItem::new that made item
  lastOp,      \* history: the last CustomMenuItem operation called
  prevCall,    \* history: the id_value call before the last: << >> or <<[item, value]>>
  lastCall,    \* history: the last id_value call: << >> or <<[item, value]>>
  menuStack,   \* the Menu values of the builder expression under evaluation, innermost last
  menuCalls,   \* history: per menu of menuStack, the builder calls made on it since new()
  sub,         \* a Submenu made by Submenu::new and not yet added: << >> or <<submenu>>
  subArgs,     \* history: the arguments of the Submenu::new that made sub
  trayStack,   \* as menuStack, for SystemTrayMenu
  trayCalls,   \* as menuCalls, for SystemTrayMenu
  traySub,     \* as sub, for SystemTraySubmenu
  traySubArgs, \* as subArgs, for SystemTraySubmenu
  handle,      \* whether a tray has been realized (a TrayHandle exists)
  realized,    \* the realized tray items: numeric identifier -> displayed state
  inflight,    \* per calling context, the update_item call not yet applied: << >> or <<call>>
  lastApplied, \* history: the call the native layer applied last: << >> or <<call>>
  repeated,    \* history: the last applied call was the same as the one before it
  race         \* history: the last pair of overlapping calls on one field of one item

itemVars == <<item, itemArgs, lastOp, prevCall, lastCall>>
menuVars == <<menuStack, menuCalls, sub, subArgs>>
trayVars == <<trayStack, trayCalls, traySub, traySubArgs>>
updateVars == <<handle, realized, inflight, lastApplied, repeated, race>>
vars == <<target_os, sip, itemVars, menuVars, trayVars, updateVars>>

None == "None"

---------------------------------------------------------------------------
(* Bounds and input sets *)

\* entries (at any depth) the menus under construction may hold in total
MaxNodes == 4
\* menus under construction at once (the nesting of the builder expression)
MaxDepth == 2

Strings == {"open", "quit"}
\* identifiers (I = String) and titles handed to the constructors
Ids == Strings
Titles == Strings

Limb == 2^16
U64 == [1..4 -> 0..(Limb - 1)]
U32 == [1..2 -> 0..(Limb - 1)]
\* 64-bit hash outputs the run may see: the first two differ only above bit 32
U64Samples == { <<0, 0, 4660, 22136>>, <<51966, 1, 4660, 22136>>,
                <<65535, 65535, 65535, 65535>> }

---------------------------------------------------------------------------
(* NativeImage *)

NativeImage ==
  { "Add", "Advanced", "Bluetooth", "Bookmarks", "Caution", "ColorPanel",
    "ColumnView", "Computer", "EnterFullScreen", "Everyone", "ExitFullScreen",
    "FlowView", "Folder", "FolderBurnable", "FolderSmart",
    "FollowLinkFreestanding", "FontPanel", "GoLeft", "GoRight", "Home",
    "IChatTheater", "IconView", "Info", "InvalidDataFreestanding",
    "LeftFacingTriangle", "ListView", "LockLocked", "LockUnlocked",
    "MenuMixedState", "MenuOnState", "MobileMe", "MultipleDocuments",
    "Network", "Path", "PreferencesGeneral", "QuickLook",
    "RefreshFreestanding", "Refresh", "Remove", "RevealFreestanding",
    "RightFacingTriangle", "Share", "Slideshow", "SmartBadge",
    "StatusAvailable", "StatusNone", "StatusPartiallyAvailable",
    "StatusUnavailable", "StopProgressFreestanding", "StopProgress",
    "TrashEmpty", "TrashFull", "User", "UserAccounts", "UserGroup",
    "UserGuest" }

\* the images the actions draw from
ImageInputs == {"Add"}

---------------------------------------------------------------------------
(* CustomMenuItem *)

\* native_image exists only on macOS; elsewhere the field stays None
CustomMenuItem ==
  [ id : Ids, title : Titles, keyboard_accelerator : {None},
    enabled : BOOLEAN, selected : BOOLEAN,
    native_image : NativeImage \cup {None} ]

CustomMenuItemNewEnabledFalse(id, title) ==
  [ id |-> id, title |-> title, keyboard_accelerator |-> None,
    enabled |-> FALSE, selected |-> FALSE, native_image |-> None ]

CustomMenuItemNew(id, title) ==
  [ id |-> id, title |-> title, keyboard_accelerator |-> None,
    enabled |-> TRUE, selected |-> FALSE, native_image |-> None ]

native_image(self, image) == [self EXCEPT !.native_image = image]

disabledClearsSelected(self) == [self EXCEPT !.enabled = FALSE, !.selected = FALSE]

disabled(self) == [self EXCEPT !.enabled = FALSE]

selected(self) == [self EXCEPT !.selected = TRUE]

\* DefaultHasher::new(): nothing written yet
DefaultHasherNew == << >>

\* self.id.hash(&mut s)
HashWrite(s, v) == Append(s, v)

\* s.finish(): the 64-bit hash of what was written
Finish(s) == sip[s[1]]

AsU32High(h) == <<h[1], h[2]>>

\* `as u32`: the low 32 bits
AsU32(h) == <<h[3], h[4]>>

id_valueOfTitle(self) == AsU32(Finish(HashWrite(DefaultHasherNew, self.title)))

id_value(self) == AsU32(Finish(HashWrite(DefaultHasherNew, self.id)))

---------------------------------------------------------------------------
(* MenuItem, Menu, Submenu, MenuEntry *)

\* a native item is <<variant>>, or <<"About", name>>
MenuItem ==
  { <<v>> : v \in { "Hide", "Services", "HideOthers", "ShowAll", "CloseWindow",
                    "Quit", "Copy", "Cut", "Undo", "Redo", "SelectAll", "Paste",
                    "EnterFullScreen", "Minimize", "Zoom", "Separator" } }
    \cup { <<"About", name>> : name \in Strings }

\* an entry names its variant and carries the payload in the field of that variant
MenuEntry_CustomItem(it) ==
  [variant |-> "CustomItem", custom |-> <<it>>, native |-> << >>, submenu |-> << >>]

MenuEntry_NativeItem(it) ==
  [variant |-> "NativeItem", custom |-> << >>, native |-> it, submenu |-> << >>]

MenuEntry_Submenu(submenu) ==
  [variant |-> "Submenu", custom |-> << >>, native |-> << >>, submenu |-> <<submenu>>]

\* Menu::new() / Default
MenuNew == [items |-> << >>]

SubmenuNewEnabledIfNonEmpty(title, menu) ==
  [title |-> title, enabled |-> (menu.items # << >>), inner |-> menu]

SubmenuNew(title, menu) == [title |-> title, enabled |-> TRUE, inner |-> menu]

Menu_add_item(self, it) ==
  [self EXCEPT !.items = Append(@, MenuEntry_CustomItem(it))]

Menu_add_native_item_front(self, it) ==
  [self EXCEPT !.items = <<MenuEntry_NativeItem(it)>> \o @]

Menu_add_native_item(self, it) ==
  [self EXCEPT !.items = Append(@, MenuEntry_NativeItem(it))]

Menu_add_submenu(self, submenu) ==
  [self EXCEPT !.items = Append(@, MenuEntry_Submenu(submenu))]

---------------------------------------------------------------------------
(* SystemTrayMenuItem, SystemTrayMenu, SystemTraySubmenu, SystemTrayMenuEntry *)

SystemTrayMenuItemWithQuit == { <<"Separator">>, <<"Quit">> }

SystemTrayMenuItem == { <<"Separator">> }

SystemTrayMenuEntry_CustomItem(it) ==
  [variant |-> "CustomItem", custom |-> <<it>>, native |-> << >>, submenu |-> << >>]

SystemTrayMenuEntry_NativeItem(it) ==
  [variant |-> "NativeItem", custom |-> << >>, native |-> it, submenu |-> << >>]

SystemTrayMenuEntry_Submenu(submenu) ==
  [variant |-> "Submenu", custom |-> << >>, native |-> << >>, submenu |-> <<submenu>>]

SystemTrayMenuNew == [items |-> << >>]

SystemTraySubmenuNew(title, menu) == [title |-> title, enabled |-> TRUE, inner |-> menu]

SystemTrayMenu_add_item(self, it) ==
  [self EXCEPT !.items = Append(@, SystemTrayMenuEntry_CustomItem(it))]

SystemTrayMenu_add_native_item(self, it) ==
  [self EXCEPT !.items = Append(@, SystemTrayMenuEntry_NativeItem(it))]

SystemTrayMenu_add_submenu(self, submenu) ==
  [self EXCEPT !.items = Append(@, SystemTrayMenuEntry_Submenu(submenu))]

---------------------------------------------------------------------------
(* Inputs of the builder actions, and the size of what is under construction *)

ItemInputs ==
  { CustomMenuItemNew("open", "open"),
    selected(disabled(CustomMenuItemNew("quit", "open"))) }

NativeInputs == { <<"Separator">>, <<"Quit">> }

RECURSIVE Nodes(_)
\* the entries of a menu, at every depth
Nodes(menu) ==
  LET n[i \in 0..Len(menu.items)] ==
        IF i = 0 THEN 0
        ELSE n[i - 1] + 1 +
             (IF menu.items[i].variant = "Submenu"
                THEN Nodes(menu.items[i].submenu[1].inner) ELSE 0)
  IN n[Len(menu.items)]

StackNodes(stack) ==
  LET n[i \in 0..Len(stack)] == IF i = 0 THEN 0 ELSE n[i - 1] + Nodes(stack[i])
  IN n[Len(stack)]

SubNodes(s) == IF s = << >> THEN 0 ELSE 1 + Nodes(s[1].inner)

TotalNodes ==
  StackNodes(menuStack) + SubNodes(sub) + StackNodes(trayStack) + SubNodes(traySub)

TotalDepth == Len(menuStack) + Len(trayStack)

Top(stack) == stack[Len(stack)]
SetTop(stack, v) == [stack EXCEPT ![Len(stack)] = v]
Pop(stack) == SubSeq(stack, 1, Len(stack) - 1)

Call(op, custom, native, submenu) ==
  [op |-> op, custom |-> custom, native |-> native, submenu |-> submenu]

---------------------------------------------------------------------------
(* MenuUpdate, and the platform adapter behind TrayHandle *)

SetEnabled(b) == [kind |-> "SetEnabled", flag |-> b, text |-> ""]
SetTitle(t) == [kind |-> "SetTitle", flag |-> FALSE, text |-> t]
SetSelected(b) == [kind |-> "SetSelected", flag |-> b, text |-> ""]
SetNativeImageUpdate(image) == [kind |-> "SetNativeImage", flag |-> FALSE, text |-> image]

\* SetNativeImage exists only on macOS
MenuUpdate ==
  { SetEnabled(b) : b \in BOOLEAN } \cup { SetTitle(t) : t \in Titles }
    \cup { SetSelected(b) : b \in BOOLEAN }
    \cup (IF target_os = "macos"
            THEN { SetNativeImageUpdate(image) : image \in NativeImage } ELSE {})

\* the field a command writes, and the value it writes there
FieldOf(update) ==
  CASE update.kind = "SetEnabled" -> "enabled"
    [] update.kind = "SetTitle" -> "title"
    [] update.kind = "SetSelected" -> "selected"
    [] update.kind = "SetNativeImage" -> "native_image"

ValueOf(update) ==
  IF update.kind \in {"SetEnabled", "SetSelected"}
    THEN (IF update.flag THEN "true" ELSE "false") ELSE update.text

\* what the realized item shows in a field, in the words of ValueOf
Shown(state, f) ==
  CASE f = "enabled" -> (IF state.enabled THEN "true" ELSE "false")
    [] f = "selected" -> (IF state.selected THEN "true" ELSE "false")
    [] f = "title" -> state.title
    [] f = "native_image" -> state.native_image

RECURSIVE CustomItems(_)
\* the custom items of a tray menu in display order, at every depth
CustomItems(menu) ==
  LET s[i \in 0..Len(menu.items)] ==
        IF i = 0 THEN << >>
        ELSE s[i - 1] \o
             (IF menu.items[i].variant = "CustomItem" THEN menu.items[i].custom
              ELSE IF menu.items[i].variant = "Submenu"
                THEN CustomItems(menu.items[i].submenu[1].inner)
              ELSE << >>)
  IN s[Len(menu.items)]

\* realization keeps, per numeric identifier, the state of the native item made
\* for it (of two items with one identifier, the later one)
RealizeTray(menu) ==
  LET its == CustomItems(menu)
      keys == { id_value(its[i]) : i \in 1..Len(its) }
      lastOf(k) == CHOOSE i \in 1..Len(its) :
                     /\ id_value(its[i]) = k
                     /\ \A j \in 1..Len(its) : id_value(its[j]) = k => j <= i
  IN [k \in keys |->
        [ title |-> its[lastOf(k)].title, enabled |-> its[lastOf(k)].enabled,
          selected |-> its[lastOf(k)].selected,
          native_image |-> its[lastOf(k)].native_image ]]

ApplyUpdateToggles(r, id, update) ==
  IF id \notin DOMAIN r THEN r
  ELSE CASE update.kind = "SetEnabled" -> [r EXCEPT ![id].enabled = ~@]
         [] update.kind = "SetTitle" -> [r EXCEPT ![id].title = update.text]
         [] update.kind = "SetSelected" -> [r EXCEPT ![id].selected = ~@]
         [] update.kind = "SetNativeImage" -> [r EXCEPT ![id].native_image = update.text]

ApplyUpdateRadio(r, id, update) ==
  IF id \notin DOMAIN r THEN r
  ELSE CASE update.kind = "SetEnabled" -> [r EXCEPT ![id].enabled = update.flag]
         [] update.kind = "SetTitle" -> [r EXCEPT ![id].title = update.text]
         [] update.kind = "SetSelected" ->
              [k \in DOMAIN r |->
                 [r[k] EXCEPT !.selected = IF k = id THEN update.flag
                                           ELSE (@ /\ ~update.flag)]]
         [] update.kind = "SetNativeImage" -> [r EXCEPT ![id].native_image = update.text]

ApplyUpdateOnlyEnables(r, id, update) ==
  IF id \notin DOMAIN r THEN r
  ELSE CASE update.kind = "SetEnabled" -> [r EXCEPT ![id].enabled = @ \/ update.flag]
         [] update.kind = "SetTitle" -> [r EXCEPT ![id].title = update.text]
         [] update.kind = "SetSelected" -> [r EXCEPT ![id].selected = @ \/ update.flag]
         [] update.kind = "SetNativeImage" -> [r EXCEPT ![id].native_image = update.text]

\* the native layer applies a command to the item the identifier addresses; an
\* identifier of no realized item changes nothing
ApplyUpdate(r, id, update) ==
  IF id \notin DOMAIN r THEN r
  ELSE CASE update.kind = "SetEnabled" -> [r EXCEPT ![id].enabled = update.flag]
         [] update.kind = "SetTitle" -> [r EXCEPT ![id].title = update.text]
         [] update.kind = "SetSelected" -> [r EXCEPT ![id].selected = update.flag]
         [] update.kind = "SetNativeImage" -> [r EXCEPT ![id].native_image = update.text]

\* the contexts update_item is called from
Contexts == {"timer", "callback"}

\* the tray menus handed to the adapter, the commands and the identifiers the
\* actions draw from
TrayInputs ==
  { SystemTrayMenu_add_item(SystemTrayMenuNew, CustomMenuItemNew("open", "open")),
    SystemTrayMenu_add_submenu(
      SystemTrayMenu_add_native_item(
        SystemTrayMenu_add_item(SystemTrayMenuNew, CustomMenuItemNew("open", "open")),
        <<"Separator">>),
      SystemTraySubmenuNew("quit",
        SystemTrayMenu_add_item(SystemTrayMenuNew,
          selected(disabled(CustomMenuItemNew("quit", "open")))))) }

UpdateInputs ==
  { SetEnabled(TRUE), SetEnabled(FALSE), SetTitle("quit"), SetSelected(TRUE),
    SetSelected(FALSE), SetNativeImageUpdate("Add") } \cap MenuUpdate

UpdateIds == { AsU32(sip[id]) : id \in Ids }

---------------------------------------------------------------------------
(* Initial state *)

Init ==
  /\ target_os \in {"macos", "linux"}
  /\ sip \in [Strings -> U64Samples]
  /\ item = << >>
  /\ itemArgs = << >>
  /\ lastOp = None
  /\ prevCall = << >>
  /\ lastCall = << >>
  /\ menuStack = << >>
  /\ menuCalls = << >>
  /\ sub = << >>
  /\ subArgs = << >>
  /\ trayStack = << >>
  /\ trayCalls = << >>
  /\ traySub = << >>
  /\ traySubArgs = << >>
  /\ handle = FALSE
  /\ realized = << >>
  /\ inflight = [c \in Contexts |-> << >>]
  /\ lastApplied = << >>
  /\ repeated = FALSE
  /\ race = << >>

---------------------------------------------------------------------------
(* CustomMenuItem operations *)

NewItem(id, title) ==
  /\ item' = <<CustomMenuItemNew(id, title)>>
  /\ itemArgs' = <<[id |-> id, title |-> title]>>
  /\ lastOp' = "new"
  /\ UNCHANGED <<target_os, sip, prevCall, lastCall, menuVars, trayVars, updateVars>>

SetNativeImage(image) ==
  /\ target_os = "macos"
  /\ item # << >>
  /\ item' = <<native_image(item[1], image)>>
  /\ lastOp' = "native_image"
  /\ UNCHANGED <<target_os, sip, itemArgs, prevCall, lastCall, menuVars, trayVars, updateVars>>

Disabled ==
  /\ item # << >>
  /\ item' = <<disabled(item[1])>>
  /\ lastOp' = "disabled"
  /\ UNCHANGED <<target_os, sip, itemArgs, prevCall, lastCall, menuVars, trayVars, updateVars>>

Selected ==
  /\ item # << >>
  /\ item' = <<selected(item[1])>>
  /\ lastOp' = "selected"
  /\ UNCHANGED <<target_os, sip, itemArgs, prevCall, lastCall, menuVars, trayVars, updateVars>>

IdValue ==
  /\ item # << >>
  /\ prevCall' = lastCall
  /\ lastCall' = <<[item |-> item[1], value |-> id_value(item[1])]>>
  /\ lastOp' = "id_value"
  /\ UNCHANGED <<target_os, sip, item, itemArgs, menuVars, trayVars, updateVars>>

NextItem ==
  \/ \E id \in Ids, title \in Titles : NewItem(id, title)
  \/ \E image \in ImageInputs : SetNativeImage(image)
  \/ Disabled
  \/ Selected
  \/ IdValue

SpecItem == Init /\ [][NextItem]_vars

---------------------------------------------------------------------------
(* Menu builder operations: the evaluation of a chained builder expression *)

\* one builder expression is evaluated: its menus are all window menus or all
\* tray menus
MenuNewCall ==
  /\ trayStack = << >> /\ traySub = << >>
  /\ TotalDepth < MaxDepth
  /\ menuStack' = Append(menuStack, MenuNew)
  /\ menuCalls' = Append(menuCalls, << >>)
  /\ UNCHANGED <<target_os, sip, itemVars, sub, subArgs, trayVars, updateVars>>

AddItem(it) ==
  /\ menuStack # << >>
  /\ TotalNodes < MaxNodes
  /\ menuStack' = SetTop(menuStack, Menu_add_item(Top(menuStack), it))
  /\ menuCalls' = SetTop(menuCalls,
                         Append(Top(menuCalls), Call("add_item", <<it>>, << >>, << >>)))
  /\ UNCHANGED <<target_os, sip, itemVars, sub, subArgs, trayVars, updateVars>>

AddNativeItem(it) ==
  /\ menuStack # << >>
  /\ TotalNodes < MaxNodes
  /\ menuStack' = SetTop(menuStack, Menu_add_native_item(Top(menuStack), it))
  /\ menuCalls' = SetTop(menuCalls,
                         Append(Top(menuCalls), Call("add_native_item", << >>, it, << >>)))
  /\ UNCHANGED <<target_os, sip, itemVars, sub, subArgs, trayVars, updateVars>>

\* Submenu::new(title, menu) takes the innermost menu by value
SubmenuNewCall(title) ==
  /\ menuStack # << >>
  /\ sub = << >>
  /\ TotalNodes < MaxNodes
  /\ sub' = <<SubmenuNew(title, Top(menuStack))>>
  /\ subArgs' = <<[title |-> title, menu |-> Top(menuStack)]>>
  /\ menuStack' = Pop(menuStack)
  /\ menuCalls' = Pop(menuCalls)
  /\ UNCHANGED <<target_os, sip, itemVars, trayVars, updateVars>>

AddSubmenu ==
  /\ menuStack # << >>
  /\ sub # << >>
  /\ menuStack' = SetTop(menuStack, Menu_add_submenu(Top(menuStack), sub[1]))
  /\ menuCalls' = SetTop(menuCalls,
                         Append(Top(menuCalls), Call("add_submenu", << >>, << >>, sub)))
  /\ sub' = << >>
  /\ subArgs' = << >>
  /\ UNCHANGED <<target_os, sip, itemVars, trayVars, updateVars>>

---------------------------------------------------------------------------
(* SystemTrayMenu builder operations *)

TrayNewCall ==
  /\ menuStack = << >> /\ sub = << >>
  /\ TotalDepth < MaxDepth
  /\ trayStack' = Append(trayStack, SystemTrayMenuNew)
  /\ trayCalls' = Append(trayCalls, << >>)
  /\ UNCHANGED <<target_os, sip, itemVars, menuVars, traySub, traySubArgs, updateVars>>

TrayAddItem(it) ==
  /\ trayStack # << >>
  /\ TotalNodes < MaxNodes
  /\ trayStack' = SetTop(trayStack, SystemTrayMenu_add_item(Top(trayStack), it))
  /\ trayCalls' = SetTop(trayCalls,
                         Append(Top(trayCalls), Call("add_item", <<it>>, << >>, << >>)))
  /\ UNCHANGED <<target_os, sip, itemVars, menuVars, traySub, traySubArgs, updateVars>>

TrayAddNativeItem(it) ==
  /\ trayStack # << >>
  /\ TotalNodes < MaxNodes
  /\ trayStack' = SetTop(trayStack, SystemTrayMenu_add_native_item(Top(trayStack), it))
  /\ trayCalls' = SetTop(trayCalls,
                         Append(Top(trayCalls), Call("add_native_item", << >>, it, << >>)))
  /\ UNCHANGED <<target_os, sip, itemVars, menuVars, traySub, traySubArgs, updateVars>>

TraySubmenuNewCall(title) ==
  /\ trayStack # << >>
  /\ traySub = << >>
  /\ TotalNodes < MaxNodes
  /\ traySub' = <<SystemTraySubmenuNew(title, Top(trayStack))>>
  /\ traySubArgs' = <<[title |-> title, menu |-> Top(trayStack)]>>
  /\ trayStack' = Pop(trayStack)
  /\ trayCalls' = Pop(trayCalls)
  /\ UNCHANGED <<target_os, sip, itemVars, menuVars, updateVars>>

TrayAddSubmenu ==
  /\ trayStack # << >>
  /\ traySub # << >>
  /\ trayStack' = SetTop(trayStack, SystemTrayMenu_add_submenu(Top(trayStack), traySub[1]))
  /\ trayCalls' = SetTop(trayCalls,
                         Append(Top(trayCalls), Call("add_submenu", << >>, << >>, traySub)))
  /\ traySub' = << >>
  /\ traySubArgs' = << >>
  /\ UNCHANGED <<target_os, sip, itemVars, menuVars, updateVars>>

NextBuild ==
  \/ MenuNewCall
  \/ \E it \in ItemInputs : AddItem(it)
  \/ \E it \in NativeInputs : AddNativeItem(it)
  \/ \E title \in Titles : SubmenuNewCall(title)
  \/ AddSubmenu
  \/ TrayNewCall
  \/ \E it \in ItemInputs : TrayAddItem(it)
  \/ \E it \in SystemTrayMenuItem : TrayAddNativeItem(it)
  \/ \E title \in Titles : TraySubmenuNewCall(title)
  \/ TrayAddSubmenu

\* the builders read neither the hasher nor the build target: one of each is enough
InitBuild ==
  /\ Init
  /\ target_os = "linux"
  /\ sip = [s \in Strings |-> <<0, 0, 4660, 22136>>]

SpecBuild == InitBuild /\ [][NextBuild]_vars

---------------------------------------------------------------------------
(* The update protocol *)

\* the adapter realizes a tray menu and hands out the TrayHandle
Realize(menu) ==
  /\ ~handle
  /\ handle' = TRUE
  /\ realized' = RealizeTray(menu)
  /\ UNCHANGED <<target_os, sip, itemVars, menuVars, trayVars,
                 inflight, lastApplied, repeated, race>>

Other(c) == CHOOSE d \in Contexts : d # c

\* TrayHandle::update_item(id, update) called from context c: the command is on
\* its way to the thread that owns the native menu
UpdateItem(c, id, update) ==
  /\ handle
  /\ inflight[c] = << >>
  /\ inflight' = [inflight EXCEPT ![c] = <<[id |-> id, update |-> update]>>]
  /\ race' = IF /\ inflight[Other(c)] # << >>
                /\ inflight[Other(c)][1].id = id
                /\ FieldOf(inflight[Other(c)][1].update) = FieldOf(update)
                /\ ValueOf(inflight[Other(c)][1].update) # ValueOf(update)
              THEN <<[ id |-> id, field |-> FieldOf(update),
                       first |-> ValueOf(inflight[Other(c)][1].update),
                       second |-> ValueOf(update),
                       pending |-> Contexts, applied |-> << >> ]>>
              ELSE << >>
  /\ UNCHANGED <<target_os, sip, itemVars, menuVars, trayVars,
                 handle, realized, lastApplied, repeated>>

\* the native layer applies the call of context c
Deliver(c) ==
  /\ inflight[c] # << >>
  /\ realized' = ApplyUpdate(realized, inflight[c][1].id, inflight[c][1].update)
  /\ inflight' = [inflight EXCEPT ![c] = << >>]
  /\ lastApplied' = inflight[c]
  /\ repeated' = (lastApplied = inflight[c])
  /\ race' = IF race = << >> THEN race
              ELSE <<[race[1] EXCEPT
                        !.pending = @ \ {c},
                        !.applied = Append(@, ValueOf(inflight[c][1].update))]>>
  /\ UNCHANGED <<target_os, sip, itemVars, menuVars, trayVars, handle>>

NextUpdate ==
  \/ \E menu \in TrayInputs : Realize(menu)
  \/ \E c \in Contexts, id \in UpdateIds, update \in UpdateInputs : UpdateItem(c, id, update)
  \/ \E c \in Contexts : Deliver(c)

\* the macOS build has every command; only whether the two identifiers collide
\* matters of the hasher
InitUpdate ==
  /\ Init
  /\ target_os = "macos"
  /\ sip \in { [s \in Strings |-> IF s = "open" THEN <<0, 0, 4660, 22136>>
                                   ELSE <<65535, 65535, 65535, 65535>>],
                [s \in Strings |-> IF s = "open" THEN <<0, 0, 4660, 22136>>
                                   ELSE <<51966, 1, 4660, 22136>>] }

SpecUpdate == InitUpdate /\ [][NextUpdate]_vars

---------------------------------------------------------------------------
(* Properties of the builders *)

VariantOf(op) ==
  CASE op = "add_item" -> "CustomItem"
    [] op = "add_native_item" -> "NativeItem"
    [] op = "add_submenu" -> "Submenu"

\* the items are the arguments of the calls, in call order, each under the
\* variant of its call
ListsCalls(menu, calls) ==
  /\ Len(menu.items) = Len(calls)
  /\ \A i \in 1..Len(calls) :
       /\ menu.items[i].variant = VariantOf(calls[i].op)
       /\ menu.items[i].custom = calls[i].custom
       /\ menu.items[i].native = calls[i].native
       /\ menu.items[i].submenu = calls[i].submenu

\* C1: after n builder calls on a Menu or a SystemTrayMenu since new(), items
\* has length n and holds the arguments in call order, each wrapped in the
\* variant of its call (every call appends one entry and keeps the others)
C1_AppendInCallOrder ==
  /\ Len(menuCalls) = Len(menuStack)
  /\ Len(trayCalls) = Len(trayStack)
  /\ \A k \in 1..Len(menuStack) : ListsCalls(menuStack[k], menuCalls[k])
  /\ \A k \in 1..Len(trayStack) : ListsCalls(trayStack[k], trayCalls[k])

\* the scenario of the specification: a custom item, a native item, and a
\* submenu holding one custom item, in that order
C1_Witness ==
  /\ Len(menuStack) = 1
  /\ Len(menuStack[1].items) = 3
  /\ menuStack[1].items[1].variant = "CustomItem"
  /\ menuStack[1].items[2].variant = "NativeItem"
  /\ menuStack[1].items[3].variant = "Submenu"
  /\ Len(menuStack[1].items[3].submenu[1].inner.items) = 1
  /\ menuStack[1].items[3].submenu[1].inner.items[1].variant = "CustomItem"
  /\ menuStack[1].items[3].submenu[1].inner.items[1].custom
       # menuStack[1].items[1].custom

\* C5: Submenu::new and SystemTraySubmenu::new return an enabled submenu with
\* the title and the inner menu they were given, whatever the inner menu holds
C5_SubmenuNew ==
  /\ sub # << >> =>
       /\ sub[1].enabled = TRUE
       /\ sub[1].title = subArgs[1].title
       /\ sub[1].inner = subArgs[1].menu
  /\ traySub # << >> =>
       /\ traySub[1].enabled = TRUE
       /\ traySub[1].title = traySubArgs[1].title
       /\ traySub[1].inner = traySubArgs[1].menu

\* a submenu was made from an empty menu
C5_Witness ==
  /\ sub # << >>
  /\ sub[1].inner.items = << >>
  /\ sub[1].title = "quit"

RECURSIVE TrayNatives(_)
\* the native items of a tray menu, at every depth
TrayNatives(menu) ==
  UNION { IF menu.items[i].variant = "NativeItem" THEN {menu.items[i].native}
          ELSE IF menu.items[i].variant = "Submenu"
            THEN TrayNatives(menu.items[i].submenu[1].inner)
          ELSE {} : i \in 1..Len(menu.items) }

RECURSIVE TrayDepth(_)
\* the depth of the deepest native item of a tray menu (0: none)
TrayDepth(menu) ==
  LET d(e) == IF e.variant = "NativeItem" THEN 1
              ELSE IF e.variant = "Submenu"
                THEN (IF TrayDepth(e.submenu[1].inner) = 0 THEN 0
                      ELSE 1 + TrayDepth(e.submenu[1].inner))
              ELSE 0
      m[i \in 0..Len(menu.items)] ==
        IF i = 0 THEN 0
        ELSE IF d(menu.items[i]) > m[i - 1] THEN d(menu.items[i]) ELSE m[i - 1]
  IN m[Len(menu.items)]

\* C9: every native item of a tray menu, at every depth, is Separator
C9_TrayOnlySeparator ==
  /\ \A k \in 1..Len(trayStack) : TrayNatives(trayStack[k]) \subseteq { <<"Separator">> }
  /\ traySub # << >> => TrayNatives(traySub[1].inner) \subseteq { <<"Separator">> }

\* a tray menu holds a separator at the top and one inside a submenu
C9_Witness ==
  /\ Len(trayStack) = 1
  /\ \E i \in 1..Len(trayStack[1].items) : trayStack[1].items[i].variant = "NativeItem"
  /\ TrayDepth(trayStack[1]) = 2

---------------------------------------------------------------------------
(* Properties of CustomMenuItem *)

\* C2: two id_value calls on items with equal ids return the same number,
\* whatever the items' other fields are
C2_SameIdSameValue ==
  (prevCall # << >> /\ lastCall # << >> /\ prevCall[1].item.id = lastCall[1].item.id)
    => prevCall[1].value = lastCall[1].value

\* two calls were made on items that share the id and differ in every other
\* field the builders can set
C2_Witness ==
  /\ prevCall # << >> /\ lastCall # << >>
  /\ prevCall[1].item.id = lastCall[1].item.id
  /\ prevCall[1].item.title # lastCall[1].item.title
  /\ prevCall[1].item.enabled # lastCall[1].item.enabled
  /\ prevCall[1].item.selected # lastCall[1].item.selected
  /\ sip[prevCall[1].item.title] # sip[lastCall[1].item.title]
  /\ prevCall[1].value = lastCall[1].value

\* C3: right after CustomMenuItem::new(id, title) the item has that id and
\* title, is enabled, not selected, and has no accelerator and no native image
C3_NewDefaults ==
  lastOp = "new" =>
    /\ item # << >> /\ itemArgs # << >>
    /\ item[1].id = itemArgs[1].id
    /\ item[1].title = itemArgs[1].title
    /\ item[1].enabled = TRUE
    /\ item[1].selected = FALSE
    /\ item[1].keyboard_accelerator = None
    /\ item[1].native_image = None

\* an item was just created with distinct id and title
C3_Witness ==
  /\ lastOp = "new" /\ item # << >>
  /\ item[1].id = "quit" /\ item[1].title = "open"
  /\ item[1].enabled /\ ~item[1].selected

\* C4: a disabled() step sets enabled to false and a selected() step sets
\* selected to true; each leaves every other field of the item as it was
C4_ModifierFrame ==
  [][ /\ lastOp' = "disabled" =>
           /\ item # << >> /\ item' # << >>
           /\ item'[1].enabled = FALSE
           /\ item'[1].id = item[1].id
           /\ item'[1].title = item[1].title
           /\ item'[1].keyboard_accelerator = item[1].keyboard_accelerator
           /\ item'[1].selected = item[1].selected
           /\ item'[1].native_image = item[1].native_image
      /\ lastOp' = "selected" =>
           /\ item # << >> /\ item' # << >>
           /\ item'[1].selected = TRUE
           /\ item'[1].id = item[1].id
           /\ item'[1].title = item[1].title
           /\ item'[1].keyboard_accelerator = item[1].keyboard_accelerator
           /\ item'[1].enabled = item[1].enabled
           /\ item'[1].native_image = item[1].native_image ]_vars

\* disabled() was applied to an item that selected() had already marked
C4_Witness ==
  /\ lastOp = "disabled" /\ item # << >>
  /\ item[1].enabled = FALSE /\ item[1].selected = TRUE
  /\ item[1].id = itemArgs[1].id /\ item[1].title = itemArgs[1].title

\* C10: id_value returns the low 32 bits of the 64-bit hash of the id, always
\* a u32, and reports no collision: ids whose hashes agree modulo 2^32 get the
\* same number
C10_Low32Bits ==
  /\ item # << >> => id_value(item[1]) \in U32
  /\ \A c \in {prevCall, lastCall} :
       c # << >> =>
         /\ c[1].value \in U32
         /\ c[1].value[1] = sip[c[1].item.id][3]
         /\ c[1].value[2] = sip[c[1].item.id][4]
  /\ (/\ prevCall # << >> /\ lastCall # << >>
      /\ sip[prevCall[1].item.id][3] = sip[lastCall[1].item.id][3]
      /\ sip[prevCall[1].item.id][4] = sip[lastCall[1].item.id][4])
       => prevCall[1].value = lastCall[1].value

\* two distinct ids with distinct 64-bit hashes were resolved to one number
C10_Witness ==
  /\ prevCall # << >> /\ lastCall # << >>
  /\ prevCall[1].item.id # lastCall[1].item.id
  /\ sip[prevCall[1].item.id] # sip[lastCall[1].item.id]
  /\ prevCall[1].value = lastCall[1].value

---------------------------------------------------------------------------
(* Properties of the update protocol *)

Fields == {"title", "enabled", "selected", "native_image"}

\* the step in which the native layer applies the call of context c
Delivers(c) == inflight[c] # << >> /\ inflight'[c] = << >>

\* C6: every command is idempotent: applying the command that was applied last
\* once more to the same item leaves the realized menu as it is after the
\* first application
C6_Idempotent ==
  [][ \A c \in Contexts :
        (Delivers(c) /\ lastApplied = inflight[c]) => realized' = realized ]_vars

\* SetEnabled(true) was applied twice in a row to a realized item that was
\* realized disabled
C6_Witness ==
  /\ repeated
  /\ lastApplied[1].update = SetEnabled(TRUE)
  /\ lastApplied[1].id = AsU32(sip["quit"])
  /\ Cardinality(DOMAIN realized) = 2
  /\ realized[lastApplied[1].id].enabled

\* C7: applying update_item(id, command) writes the command's value to the
\* command's field of the realized item with that identifier, and leaves every
\* other field of that item and every other realized item as it was
C7_SingleFieldFrame ==
  [][ \A c \in Contexts :
        Delivers(c) =>
          LET m == inflight[c][1] IN
            /\ DOMAIN realized' = DOMAIN realized
            /\ \A k \in DOMAIN realized : \A f \in Fields :
                 (k # m.id \/ f # FieldOf(m.update))
                   => Shown(realized'[k], f) = Shown(realized[k], f)
            /\ m.id \in DOMAIN realized
                 => Shown(realized'[m.id], FieldOf(m.update)) = ValueOf(m.update) ]_vars

\* SetSelected(true) was applied to one of two realized items and the other is
\* still not selected
C7_Witness ==
  /\ lastApplied # << >>
  /\ lastApplied[1].update = SetSelected(TRUE)
  /\ lastApplied[1].id = AsU32(sip["quit"])
  /\ Cardinality(DOMAIN realized) = 2
  /\ realized[AsU32(sip["quit"])].selected
  /\ ~realized[AsU32(sip["open"])].selected

---------------------------------------------------------------------------
(* The whole program: the three parts share no state, and each property is
   checked under the specification of its part *)

Next == NextItem \/ NextBuild \/ NextUpdate

Spec == Init /\ [][Next]_vars

====
